---- MODULE Spec2Model ----
(***************************************************************************)
(* GenAgent3D: the episodic memory store (core/memory.py, SceneMemory),    *)
(* the reflection synthesis (main.py, reflect_on_memory) and the           *)
(* orchestration loop (main.py, main) with its planner, verifier and       *)
(* repair collaborators.                                                   *)
(*                                                                         *)
(* Representation.                                                         *)
(*  - An instruction is a sequence of character codes (ord of each char).  *)
(*  - Any other text (model responses, scripts, error reports) is a        *)
(*    sequence of tokens; the markers the code splits and searches on are  *)
(*    tokens of their own (KW_SCRIPT is "Blender脚本:", FENCE_PY is        *)
(*    "```python", ...), digits are one token per digit, whitespace is SP  *)
(*    or NL.  The empty text is << >>.                                     *)
(*  - A Python value stored in a payload dict is tagged: PyNone, PyInt(n), *)
(*    PyStr(s).  A dict is a function from its keys to tagged values.      *)
(*  - Embedding components are ord(c)/255.0; the model keeps the numerator *)
(*    ord(c), so squared distances are scaled by 255*255 and so is the     *)
(*    similarity threshold (0.8 is 52020).                                 *)
(***************************************************************************)
EXTENDS Integers, Sequences, FiniteSets, TLC

VARIABLES
    max_history,            \* SceneMemory.max_history
    similarity_threshold,   \* SceneMemory.similarity_threshold, scaled by 255*255
    memories,               \* SceneMemory.memories: the attempt list
    index,                  \* SceneMemory.index: the rows of the IndexFlatL2, in order
    disk,                   \* data/memories.json: [exists, valid, data]
    constructed,            \* a SceneMemory instance exists
    hist,                   \* history: every record loaded or added, in insertion order
    n_loaded,               \* history: how many records the instance loaded at construction
    other,                  \* a second SceneMemory instance on the same data/memories.json:
                            \* [constructed, memories, index, added]
    ret,                    \* the last call on the store or on reflect_on_memory and its outcome
    pc,                     \* main(): position of the session
    user_input,             \* main(): the instruction
    reasoning,              \* main(): most recent reasoning
    script,                 \* main(): most recent artifact
    reflection,             \* main(): most recent reflection (PyNone before the first REFLECT)
    score,                  \* main(): most recent verification score (PyNone or PyInt)
    suggestion,             \* main(): most recent suggestion
    analysis,               \* main(): most recent raw analysis
    error,                  \* main(): the stripped error report being handled
    gen_scene,              \* gen_scene.py: [exists, text], the file save_script writes
    trace                   \* history: PLAN steps, verifications and repairs so far, the
                            \* reflection given to the last planner call and its prompt,
                            \* and the reports and repairs of the repair loop being run

storeVars == <<max_history, similarity_threshold, memories, index, disk, constructed,
               hist, n_loaded, other>>
mainVars == <<pc, user_input, reasoning, script, reflection, score, suggestion, analysis,
              error, gen_scene, trace>>
vars == <<max_history, similarity_threshold, memories, index, disk, constructed, hist,
          n_loaded, other, ret, pc, user_input, reasoning, script, reflection, score, suggestion,
          analysis, error, gen_scene, trace>>

(***************************************************************************)
(* Bounds of the model.                                                    *)
(***************************************************************************)
MaxHistory == 2     \* the store specifications configure max_history in 0..MaxHistory
MaxAdds == 3        \* records loaded plus add_memory calls on one store
MaxK == 2           \* search_similar is called with k in 0..MaxK
MaxCycles == 2      \* PLAN steps of one session
MaxRepairs == 2     \* repair round trips of one session

(***************************************************************************)
(* Python values.                                                          *)
(***************************************************************************)
PyNone == [tag |-> "none"]
PyInt(n) == [tag |-> "int", v |-> n]
PyStr(s) == [tag |-> "str", v |-> s]

\* bool(v): None, 0 and the empty string are falsy.
Truthy(v) ==
    CASE v.tag = "none" -> FALSE
      [] v.tag = "int" -> v.v # 0
      [] v.tag = "str" -> v.v # << >>

\* a or b
PyOr(a, b) == IF Truthy(a) THEN a ELSE b

\* d.get(key)
DictGet(d, key) == IF key \in DOMAIN d THEN d[key] ELSE PyNone

Min(a, b) == IF a <= b THEN a ELSE b

(***************************************************************************)
(* Instructions and the embedding (core/memory.py).                        *)
(***************************************************************************)
dimension == 100

\* The instructions the model draws from: "", "a", "b".
Texts == {<< >>, <<97>>, <<98>>}

\* The embedding that shifts with the number of attempts the store holds.
EmbedByStore(text) ==
    [i \in 1..dimension |-> IF i <= Len(text) THEN text[i] + Len(memories) ELSE 0]

\* The embedding in which a character past the last component wraps around
\* to the first ones.
EmbedWraps(text) ==
    [i \in 1..dimension |->
        IF i + dimension <= Len(text) THEN text[i + dimension]
        ELSE IF i <= Len(text) THEN text[i] ELSE 0]

\* _simple_embed: component i (1-based here) is ord(text[i]) for the first
\* `dimension` characters and 0 elsewhere (numerators of ord/255.0).
simple_embed(text) ==
    [i \in 1..dimension |-> IF i <= Len(text) THEN text[i] ELSE 0]

RECURSIVE SqDiffSum(_, _, _)
SqDiffSum(u, v, I) ==
    IF I = {} THEN 0
    ELSE LET i == CHOOSE x \in I : TRUE
         IN  (u[i] - v[i]) * (u[i] - v[i]) + SqDiffSum(u, v, I \ {i})

\* IndexFlatL2's metric: the squared Euclidean distance (scaled by 255*255),
\* summed over the components that differ (the others add 0).
SqDist(u, v) == SqDiffSum(u, v, {i \in 1..dimension : u[i] # v[i]})

\* index.add(rows): IndexFlatL2 appends the rows in the order given.
IndexAdd(idx, rows) == idx \o rows

\* [self._simple_embed(m["instruction"]) for m in mems]
Embeddings(mems) == [i \in 1..Len(mems) |-> simple_embed(mems[i].instruction)]

(***************************************************************************)
(* Durable storage: data/memories.json.                                    *)
(***************************************************************************)
NoFile == [exists |-> FALSE, valid |-> TRUE, data |-> << >>]
Malformed == [exists |-> TRUE, valid |-> FALSE, data |-> << >>]

\* A list value (of dicts) in a payload.
PyList(l) == [tag |-> "list", v |-> l]

\* JSON documents.
JsonNull == [json |-> "null"]
JsonNumber(n) == [json |-> "number", v |-> n]
JsonString(s) == [json |-> "string", v |-> s]
JsonArray(items) == [json |-> "array", v |-> items]

RECURSIVE DumpValue(_)
\* json.dump of a dict: an object with the same keys.
DumpDict(d) == [k \in DOMAIN d |-> DumpValue(d[k])]

\* json.dump of a value: None is null, an int a number, a str a string, a list an array.
DumpValue(v) ==
    CASE v.tag = "none" -> JsonNull
      [] v.tag = "int" -> JsonNumber(v.v)
      [] v.tag = "str" -> JsonString(v.v)
      [] v.tag = "list" -> JsonArray([i \in 1..Len(v.v) |-> DumpDict(v.v[i])])

RECURSIVE ParseValue(_)
\* json.load of an object: a dict with the same keys.
ParseDict(o) == [k \in DOMAIN o |-> ParseValue(o[k])]

\* json.load of a document: null is None, a number an int, a string a str, an array a list.
ParseValue(j) ==
    CASE j.json = "null" -> PyNone
      [] j.json = "number" -> PyInt(j.v)
      [] j.json = "string" -> PyStr(j.v)
      [] j.json = "array" -> PyList([i \in 1..Len(j.v) |-> ParseDict(j.v[i])])

\* One attempt as written to and read from the file.
DumpRecord(m) ==
    [instruction |-> JsonString(m.instruction),
     scene_plan |-> DumpDict(m.scene_plan),
     verification_result |-> DumpDict(m.verification_result)]
ParseRecord(o) ==
    [instruction |-> o.instruction.v,
     scene_plan |-> ParseDict(o.scene_plan),
     verification_result |-> ParseDict(o.verification_result)]

\* json.dump(self.memories, f): the file is opened with 'w', so the previous
\* content is replaced by the whole list, one object per attempt, in list order.
JsonFile(mems) ==
    [exists |-> TRUE, valid |-> TRUE, data |-> [i \in 1..Len(mems) |-> DumpRecord(mems[i])]]

\* The list that ends up newest first.
LoadNewestFirst(d) ==
    IF d.exists THEN [i \in 1..Len(d.data) |-> ParseRecord(d.data[Len(d.data) + 1 - i])]
    ELSE << >>

\* _load_memories: [] when the file does not exist, else json.load of it
\* (which raises on malformed content: LoadRaises).
LoadRaises(d) == d.exists /\ ~d.valid
load_memories(d) ==
    IF d.exists THEN [i \in 1..Len(d.data) |-> ParseRecord(d.data[i])] ELSE << >>

\* _save_memories
save_memories(mems) == JsonFile(mems)

(***************************************************************************)
(* SceneMemory.add_memory.                                                 *)
(***************************************************************************)
\* Python's l[-m:] for m >= 0: -0 is 0, so l[-0:] is the whole list; a start
\* before the beginning is clamped to the beginning.
SliceKeepOldest(l, m) == SubSeq(l, 1, Min(m, Len(l)))
SliceLast(l, m) ==
    IF m = 0 \/ m >= Len(l) THEN l ELSE SubSeq(l, Len(l) - m + 1, Len(l))

MemoryEntry(instruction, scene_plan, verification_result) ==
    [instruction |-> instruction,
     scene_plan |-> scene_plan,
     verification_result |-> verification_result]

\* The trim that forgets to rebuild the index.
AddMemoryStaleIndex(mems, idx, mh, instruction, scene_plan, verification_result) ==
    LET m1 == Append(mems, MemoryEntry(instruction, scene_plan, verification_result))
        i1 == IndexAdd(idx, <<simple_embed(instruction)>>)
    IN  IF Len(m1) > mh
        THEN [memories |-> SliceLast(m1, mh), index |-> i1]
        ELSE [memories |-> m1, index |-> i1]

\* Lines 58-77: the attempt list and the index after add_memory, before the save.
AddMemoryResult(mems, idx, mh, instruction, scene_plan, verification_result) ==
    LET m1 == Append(mems, MemoryEntry(instruction, scene_plan, verification_result))
        i1 == IndexAdd(idx, <<simple_embed(instruction)>>)
    IN  IF Len(m1) > mh
        THEN LET kept == SliceLast(m1, mh)
             IN  [memories |-> kept, index |-> IndexAdd(<< >>, Embeddings(kept))]
        ELSE [memories |-> m1, index |-> i1]

\* The save that runs before the trim: the file keeps what the list evicts.
AddMemorySavesFirst(instruction, scene_plan, verification_result) ==
    LET r == AddMemoryResult(memories, index, max_history,
                             instruction, scene_plan, verification_result)
    IN  /\ memories' = r.memories
        /\ index' = r.index
        /\ disk' = save_memories(Append(memories,
                        MemoryEntry(instruction, scene_plan, verification_result)))
        /\ hist' = Append(hist, MemoryEntry(instruction, scene_plan, verification_result))
        /\ UNCHANGED <<max_history, similarity_threshold, constructed, n_loaded, other>>

\* add_memory on the store of this state: list, index, full overwrite of the file.
add_memory(instruction, scene_plan, verification_result) ==
    LET r == AddMemoryResult(memories, index, max_history,
                             instruction, scene_plan, verification_result)
    IN  /\ memories' = r.memories
        /\ index' = r.index
        /\ disk' = save_memories(r.memories)
        /\ hist' = Append(hist, MemoryEntry(instruction, scene_plan, verification_result))
        /\ UNCHANGED <<max_history, similarity_threshold, constructed, n_loaded, other>>

\* SceneMemory.__init__ after the fields are set: load, then build the index.
construct ==
    LET loaded == load_memories(disk)
    IN  /\ memories' = loaded
        /\ index' = IF loaded # << >> THEN IndexAdd(<< >>, Embeddings(loaded)) ELSE << >>
        /\ constructed' = TRUE
        /\ hist' = loaded
        /\ n_loaded' = Len(loaded)
        /\ UNCHANGED <<max_history, similarity_threshold, disk, other>>

(***************************************************************************)
(* SceneMemory.search_similar.                                             *)
(***************************************************************************)
Hit(i, d) == [idx |-> i, dist |-> d]

\* The label -1 and a distance above every real one: what IndexFlatL2 pads a
\* result with when it is asked for more neighbours than it holds rows.
PadHit == Hit(-1, dimension * 1114111 * 1114111 + 1)

\* The distance of each row of the index to the query.
RECURSIVE RowDistances(_, _)
RowDistances(idx, q) ==
    IF idx = << >> THEN << >> ELSE <<SqDist(Head(idx), q)>> \o RowDistances(Tail(idx), q)

\* index.search(query, k) for k >= 1, given the rows' distances d to the
\* query: the possible results, each the k nearest rows as (0-based label,
\* distance) in non-decreasing distance.  IndexFlatL2 does not fix the order of
\* rows at equal distance, so each such order is a possible result.
IndexSearch(d, k) ==
    LET n == Len(d)
        kk == Min(k, n)
        orders == {s \in [1..kk -> 1..n] :
                     /\ \A i, j \in 1..kk : i < j => s[i] # s[j] /\ d[s[i]] <= d[s[j]]
                     /\ \A i \in 1..kk : \A o \in 1..n :
                          (\A j \in 1..kk : s[j] # o) => d[s[i]] <= d[o]}
    IN  {[i \in 1..k |-> IF i <= kk THEN Hit(s[i] - 1, d[s[i]]) ELSE PadHit] : s \in orders}

\* list[i] for a 0-based, possibly negative, Python index.
PyIndex(l, i) == IF i >= 0 THEN l[i + 1] ELSE l[Len(l) + i + 1]

\* The filter that takes an exact match for the query itself and drops it.
KeepHitApart(h, mems, threshold) == h.idx < Len(mems) /\ 0 < h.dist /\ h.dist < threshold

\* The filter that lets a neighbour at exactly the threshold through.
KeepHitInclusive(h, mems, threshold) == h.idx < Len(mems) /\ h.dist <= threshold

\* Line 96: idx < len(self.memories) and dist < self.similarity_threshold
KeepHit(h, mems, threshold) == h.idx < Len(mems) /\ h.dist < threshold

RECURSIVE FilterHits(_, _, _)
\* Lines 94-97: the records of the hits that pass, in the order of the hits.
FilterHits(hits, mems, threshold) ==
    IF hits = << >> THEN << >>
    ELSE LET h == Head(hits)
             rest == FilterHits(Tail(hits), mems, threshold)
         IN  IF KeepHit(h, mems, threshold) THEN <<PyIndex(mems, h.idx)>> \o rest ELSE rest

\* What index.search does when asked for k <= 0 neighbours: faiss asserts
\* k > 0 (AssertionError); releases before that assertion return no rows.
SearchNoRowsOutcomes == {"AssertionError", "empty"}

(***************************************************************************)
(* reflect_on_memory (main.py).                                            *)
(***************************************************************************)
ReflectBelow == 85

Digit(n) ==
    CASE n = 0 -> "0" [] n = 1 -> "1" [] n = 2 -> "2" [] n = 3 -> "3" [] n = 4 -> "4"
      [] n = 5 -> "5" [] n = 6 -> "6" [] n = 7 -> "7" [] n = 8 -> "8" [] n = 9 -> "9"

RECURSIVE NatStr(_)
\* str(n) for n >= 0: one token per decimal digit.
NatStr(n) == IF n < 10 THEN <<Digit(n)>> ELSE NatStr(n \div 10) \o <<Digit(n % 10)>>

\* str(n)
IntStr(n) == IF n < 0 THEN <<"-">> \o NatStr(0 - n) ELSE NatStr(n)

\* f"分数: {score}, 问题/建议: {suggestion}"
ProblemLine(s, t) == <<"LBL_SCORE", "SP">> \o IntStr(s) \o <<"LBL_SUGGESTION", "SP">> \o t

RECURSIVE JoinLines(_)
\* "\n".join(lines)
JoinLines(lines) ==
    IF lines = << >> THEN << >>
    ELSE IF Len(lines) = 1 THEN lines[1]
    ELSE lines[1] \o <<"NL">> \o JoinLines(Tail(lines))

\* Lines 103-106: the score and the suggestion reflect_on_memory reads.
ReadScore(vr) == PyOr(DictGet(vr, "score"), DictGet(vr, "overall_score"))
ReadSuggestion(vr) == PyOr(DictGet(vr, "suggestion"), DictGet(vr, "suggestions"))

\* The test that also takes a score of exactly 85 as a problem.
IsProblemUpTo(m) ==
    LET sc == ReadScore(m.verification_result)
        sg == ReadSuggestion(m.verification_result)
    IN  sc.tag = "int" /\ sc.v <= ReflectBelow /\ Truthy(sg)

\* Line 107: score is not None and score < 85 and suggestion
IsProblem(m) ==
    LET sc == ReadScore(m.verification_result)
        sg == ReadSuggestion(m.verification_result)
    IN  sc.tag = "int" /\ sc.v < ReflectBelow /\ Truthy(sg)

RECURSIVE Problems(_)
\* Lines 101-108: the problem lines, one per qualifying record, in list order.
Problems(mems) ==
    IF mems = << >> THEN << >>
    ELSE LET m == Head(mems)
             rest == Problems(Tail(mems))
         IN  IF IsProblem(m)
             THEN <<ProblemLine(ReadScore(m.verification_result).v,
                                ReadSuggestion(m.verification_result).v)>> \o rest
             ELSE rest

reflect_on_memory(mems) ==
    IF mems = << >> THEN << >>
    ELSE IF Problems(mems) = << >> THEN << >>
    ELSE <<"PREAMBLE", "NL">> \o JoinLines(Problems(mems))

(***************************************************************************)
(* Payloads.                                                               *)
(***************************************************************************)
\* {"reasoning": reasoning}
PlanPayload(r) == [reasoning |-> PyStr(r)]
\* {"script": script}
ScriptPayload(s) == [script |-> PyStr(s)]
\* {"analysis": analysis, "score": score, "suggestion": suggestion}
VerificationPayload(a, sc, sg) ==
    [analysis |-> PyStr(a), score |-> sc, suggestion |-> PyStr(sg)]
\* A payload of the overall_score / suggestions shape that reflect_on_memory also reads.
OverallPayload(sc, sg) == [overall_score |-> sc, suggestions |-> PyStr(sg)]

NoCall == [op |-> "none"]

\* No second instance exists.
NoInstance == [constructed |-> FALSE, memories |-> << >>, index |-> << >>, added |-> << >>]

\* The session variables while no session runs.
MainIdle ==
    /\ pc = "idle"
    /\ user_input = << >>
    /\ reasoning = << >>
    /\ script = << >>
    /\ reflection = PyNone
    /\ score = PyNone
    /\ suggestion = << >>
    /\ analysis = << >>
    /\ error = << >>
    /\ gen_scene = [exists |-> FALSE, text |-> << >>]
    /\ trace = << >>

(***************************************************************************)
(* The store driven by an arbitrary caller: construction (and              *)
(* re-construction from the same storage), add_memory, search_similar.     *)
(***************************************************************************)
\* similarity_threshold values, scaled by 255*255: 1/65025 and the default 0.8.
DefaultThreshold == 52020
Thresholds == {1, DefaultThreshold}

StorePlans == {PlanPayload(<<"r1">>)}
ScriptResults == {ScriptPayload(<<"A1">>)}
StoreResults == {ScriptPayload(<<"A1">>), VerificationPayload(<<"a1">>, PyInt(60), <<"t1">>)}

StoredRecord(i) == MemoryEntry(i, PlanPayload(<<"r1">>), ScriptPayload(<<"A1">>))

\* A durable record set written by a store with a larger max_history.
LongDisk == JsonFile(<<StoredRecord(<<97>>), StoredRecord(<<98>>)>>)

\* The durable record sets a store can start from.
StoreDisks == {NoFile, JsonFile(<< >>), Malformed, LongDisk}

InitWith(histories, thresholds, disks) ==
    /\ max_history \in histories
    /\ similarity_threshold \in thresholds
    /\ disk \in disks
    /\ memories = << >>
    /\ index = << >>
    /\ constructed = FALSE
    /\ hist = << >>
    /\ n_loaded = 0
    /\ other = NoInstance
    /\ ret = NoCall
    /\ MainIdle

\* SceneMemory(max_history, similarity_threshold) on the current storage.
Construct ==
    /\ pc = "idle"
    /\ ~LoadRaises(disk)
    /\ construct
    /\ ret' = [op |-> "construct", raised |-> FALSE]
    /\ UNCHANGED mainVars

\* json.load raises: no instance comes to exist.
ConstructFails ==
    /\ pc = "idle"
    /\ ~constructed
    /\ LoadRaises(disk)
    /\ ret' = [op |-> "construct", raised |-> TRUE]
    /\ UNCHANGED storeVars
    /\ UNCHANGED mainVars

AddMemory(instructions, plans, results) ==
    /\ pc = "idle"
    /\ constructed
    /\ Len(hist) < MaxAdds
    /\ \E i \in instructions, p \in plans, v \in results :
         /\ add_memory(i, p, v)
         /\ ret' = [op |-> "add_memory", raised |-> FALSE,
                    evicted |-> Len(memories) + 1 - Len(memories')]
    /\ UNCHANGED mainVars

\* search_similar(instruction, k)
SearchSimilar ==
    /\ pc = "idle"
    /\ constructed
    /\ \E instruction \in Texts :
         LET d == RowDistances(index, simple_embed(instruction))
         IN  \E k \in 0..MaxK :
               IF Min(k, Len(memories)) <= 0
               THEN \E o \in SearchNoRowsOutcomes :
                      ret' = [op |-> "search_similar", instruction |-> instruction, k |-> k,
                              raised |-> (o = "AssertionError"), value |-> << >>]
               ELSE \E hits \in IndexSearch(d, Min(k, Len(memories))) :
                      ret' = [op |-> "search_similar", instruction |-> instruction, k |-> k,
                              raised |-> FALSE,
                              value |-> FilterHits(hits, memories, similarity_threshold)]
    /\ UNCHANGED storeVars
    /\ UNCHANGED mainVars

\* Construction and add_memory, for every max_history in 0..MaxHistory.
InitStore == InitWith(0..MaxHistory, {DefaultThreshold}, StoreDisks)
NextStore ==
    \/ Construct
    \/ ConstructFails
    \/ AddMemory(Texts, StorePlans, StoreResults)

SpecStore == InitStore /\ [][NextStore]_vars

\* Retrieval, for every max_history in 1..MaxHistory and every threshold.
InitSearch == InitWith(1..MaxHistory, Thresholds, {NoFile, LongDisk})
NextSearch ==
    \/ Construct
    \/ AddMemory(Texts, StorePlans, ScriptResults)
    \/ SearchSimilar

SpecSearch == InitSearch /\ [][NextSearch]_vars

(***************************************************************************)
(* Text operations on token sequences.                                     *)
(***************************************************************************)
IsSpace(t) == t \in {"SP", "NL"}

RECURSIVE LStrip(_)
LStrip(s) == IF s # << >> /\ IsSpace(Head(s)) THEN LStrip(Tail(s)) ELSE s

RECURSIVE RStrip(_)
RStrip(s) ==
    IF s # << >> /\ IsSpace(s[Len(s)]) THEN RStrip(SubSeq(s, 1, Len(s) - 1)) ELSE s

\* s.strip()
Strip(s) == RStrip(LStrip(s))

\* tok in s
Has(s, tok) == \E i \in 1..Len(s) : s[i] = tok

\* The positions of the first and of the last occurrence of tok in s.
FirstPos(s, tok) == CHOOSE i \in 1..Len(s) : s[i] = tok /\ \A j \in 1..(i - 1) : s[j] # tok
LastPos(s, tok) == CHOOSE i \in 1..Len(s) : s[i] = tok /\ \A j \in (i + 1)..Len(s) : s[j] # tok

\* s.split(tok)[0] and s.split(tok)[1], for a text that holds tok.
BeforeFirst(s, tok) == SubSeq(s, 1, FirstPos(s, tok) - 1)
AfterFirst(s, tok) == SubSeq(s, FirstPos(s, tok) + 1, Len(s))
SplitSecond(s, tok) ==
    LET rest == AfterFirst(s, tok)
    IN  IF Has(rest, tok) THEN BeforeFirst(rest, tok) ELSE rest

\* s.split(tok)[-1]
SplitLast(s, tok) == IF Has(s, tok) THEN SubSeq(s, LastPos(s, tok) + 1, Len(s)) ELSE s

\* s.replace(tok, "")
Remove(s, tok) == SelectSeq(s, LAMBDA t : t # tok)

\* An opening "```python" starts with "```", so both tokens end a "```" split.
IsFence(t) == t \in {"FENCE", "FENCE_PY"}

\* s.split("```", 1)[0]
BeforeFence(s) ==
    IF \E i \in 1..Len(s) : IsFence(s[i])
    THEN SubSeq(s, 1, (CHOOSE i \in 1..Len(s) :
                          IsFence(s[i]) /\ \A j \in 1..(i - 1) : ~IsFence(s[j])) - 1)
    ELSE s

\* content.split("```python")[-1].split("```", 1)[0].strip() when the content
\* holds "```python", else content.strip().
ExtractCode(content) ==
    IF Has(content, "FENCE_PY")
    THEN Strip(BeforeFence(SplitLast(content, "FENCE_PY")))
    ELSE Strip(content)

\* sub occurs in s as a contiguous piece.
Contains(s, sub) ==
    \E i \in 0..(Len(s) - Len(sub)) : SubSeq(s, i + 1, i + Len(sub)) = sub

(***************************************************************************)
(* PlannerAgent.plan (agents/planner.py).                                  *)
(***************************************************************************)
\* The prompt that gets the section for every reflection that is not None.
PromptWithSection(instruction, refl) ==
    [instruction |-> instruction,
     section |-> IF refl.tag = "str" THEN <<"NL", "LBL_REFLECT", "NL">> \o refl.v \o <<"NL">>
                 ELSE << >>]

\* Lines 122-136: the prompt; the reflection section is appended only for a
\* truthy reflection.
PlannerPrompt(instruction, refl) ==
    [instruction |-> instruction,
     section |-> IF Truthy(refl) THEN <<"NL", "LBL_REFLECT", "NL">> \o refl.v \o <<"NL">>
                 ELSE << >>]

\* Lines 141-152: reasoning and script out of the response content.
ParsePlan(content) ==
    IF Has(content, "KW_SCRIPT")
    THEN LET part0 == BeforeFirst(content, "KW_SCRIPT")
             part1 == SplitSecond(content, "KW_SCRIPT")
         IN  [reasoning |-> Strip(Remove(part0, "KW_REASONING")),
              script |-> IF Has(part1, "FENCE_PY")
                         THEN Strip(BeforeFence(SplitLast(part1, "FENCE_PY")))
                         ELSE Strip(part1)]
    ELSE [reasoning |-> << >>, script |-> content]

\* The responses of the planning model the session draws from.
PlannerContents ==
    {<<"KW_REASONING", "NL", "r1", "NL", "KW_SCRIPT", "NL", "FENCE_PY", "NL", "A1", "NL", "FENCE">>,
     <<"KW_REASONING", "r2", "KW_SCRIPT", "SP", "A2">>,
     <<"A3", "NL">>}

(***************************************************************************)
(* fix_script_with_error (main.py).                                        *)
(***************************************************************************)
\* Lines 177-184
ParseFix(content) == ExtractCode(content)

\* The responses of the repair model the session draws from.
FixContents ==
    {<<"FENCE_PY", "NL", "B1", "NL", "FENCE">>, <<"B2", "NL">>}

\* What the user types at the error prompt: nothing, blanks, an error text,
\* an error text with blanks around it.
ErrorReports == {<< >>, <<"SP">>, <<"E1">>, <<"SP", "E2", "NL">>}

(***************************************************************************)
(* VerifierAgent.verify (agents/verifier.py).                              *)
(***************************************************************************)
IsDigit(t) == t \in {"0", "1", "2", "3", "4", "5", "6", "7", "8", "9"}

DigitValue(t) ==
    CASE t = "0" -> 0 [] t = "1" -> 1 [] t = "2" -> 2 [] t = "3" -> 3 [] t = "4" -> 4
      [] t = "5" -> 5 [] t = "6" -> 6 [] t = "7" -> 7 [] t = "8" -> 8 [] t = "9" -> 9

RECURSIVE ParseInt(_)
\* int(digits)
ParseInt(ds) ==
    IF ds = << >> THEN 0
    ELSE 10 * ParseInt(SubSeq(ds, 1, Len(ds) - 1)) + DigitValue(ds[Len(ds)])

\* [：: ]
IsSep(t) == t \in {"COLON", "SP"}

RECURSIVE SkipSeps(_, _)
\* The first position at or after i that holds no separator.
SkipSeps(s, i) == IF i <= Len(s) /\ IsSep(s[i]) THEN SkipSeps(s, i + 1) ELSE i

RECURSIVE DigitsEnd(_, _)
\* The first position at or after i that holds no digit.
DigitsEnd(s, i) == IF i <= Len(s) /\ IsDigit(s[i]) THEN DigitsEnd(s, i + 1) ELSE i

\* re.search(r"匹配度分数[：: ]*([0-9]+)", analysis): the keyword positions where
\* the pattern matches.
ScoreMatches(s) ==
    {i \in 1..Len(s) :
        /\ s[i] = "KW_SCORE"
        /\ SkipSeps(s, i + 1) <= Len(s)
        /\ IsDigit(s[SkipSeps(s, i + 1)])}

\* Lines 129-133: None, or int of the digits of the leftmost match.
ParseScore(s) ==
    IF ScoreMatches(s) = {} THEN PyNone
    ELSE LET i == CHOOSE x \in ScoreMatches(s) : \A y \in ScoreMatches(s) : x <= y
             a == SkipSeps(s, i + 1)
         IN  PyInt(ParseInt(SubSeq(s, a, DigitsEnd(s, a) - 1)))

\* Lines 130-136: re.search(r"优化建议[：: ]*(?:\n)?([\s\S]*)", analysis), the
\* group stripped; "" without a match.
ParseSuggestion(s) ==
    IF ~Has(s, "KW_SUGGEST") THEN << >>
    ELSE LET a == SkipSeps(s, FirstPos(s, "KW_SUGGEST") + 1)
             b == IF a <= Len(s) /\ s[a] = "NL" THEN a + 1 ELSE a
         IN  Strip(SubSeq(s, b, Len(s)))

\* The analyses of the judging model the session draws from: scores 0, 84 and
\* 85 with a suggestion, 150 without one, and an analysis that names no score.
Analyses ==
    {<<"KW_SCORE", "COLON", "SP", "0", "NL", "KW_SUGGEST", "COLON", "NL", "t1">>,
     <<"KW_SCORE", "COLON", "8", "4", "NL", "KW_SUGGEST", "COLON", "t2", "NL">>,
     <<"KW_SCORE", "COLON", "8", "5", "NL", "KW_SUGGEST", "COLON", "t1">>,
     <<"KW_SCORE", "SP", "1", "5", "0">>,
     <<"x1", "KW_SUGGEST", "COLON", "t2">>}

(***************************************************************************)
(* main(): one session.  The first cycle (lines 199-219) and the body of   *)
(* the feedback loop (lines 222-246) run the same steps; pc names the step *)
(* the session is about to take.                                           *)
(***************************************************************************)
DefaultMaxHistory == 1000
AcceptScore == 85

\* The instruction typed at the first prompt.
MainTexts == {<<97>>}

\* The records an earlier session left for another instruction.
EarlierRecords ==
    <<MemoryEntry(<<98>>, PlanPayload(<<"r0">>), ScriptPayload(<<"A0">>)),
      MemoryEntry(<<98>>, PlanPayload(<<"r0">>),
                  VerificationPayload(<<"a0">>, PyInt(60), <<"t0">>))>>

MainDisks == {NoFile, JsonFile(<< >>), Malformed, JsonFile(EarlierRecords)}

NoLoop == [entry |-> << >>, reports |-> << >>, calls |-> << >>]

Init ==
    /\ max_history = DefaultMaxHistory
    /\ similarity_threshold = DefaultThreshold
    /\ disk \in MainDisks
    /\ memories = << >>
    /\ index = << >>
    /\ constructed = FALSE
    /\ hist = << >>
    /\ n_loaded = 0
    /\ other = NoInstance
    /\ ret = NoCall
    /\ pc = "start"
    /\ user_input = << >>
    /\ reasoning = << >>
    /\ script = << >>
    /\ reflection = PyNone
    /\ score = PyNone
    /\ suggestion = << >>
    /\ analysis = << >>
    /\ error = << >>
    /\ gen_scene = [exists |-> TRUE, text |-> <<"OLD">>]
    /\ trace = [cycles |-> 0, verifies |-> 0, fixes |-> 0, given |-> PyNone,
                prompt |-> PlannerPrompt(<< >>, PyNone), loop |-> NoLoop]

\* ExecutorAgent.save_script: the file is rewritten with the script.
save_script(text) == [exists |-> TRUE, text |-> text]

\* Lines 193-194: the instruction is read and the store is constructed.
Start ==
    /\ pc = "start"
    /\ ~LoadRaises(disk)
    /\ \E text \in MainTexts : user_input' = text
    /\ construct
    /\ pc' = "plan"
    /\ UNCHANGED <<ret, reasoning, script, reflection, score, suggestion, analysis, error,
                   gen_scene, trace>>

\* The start that replaces a malformed file by an empty record set and goes on.
StartResets ==
    /\ pc = "start"
    /\ LoadRaises(disk)
    /\ \E text \in MainTexts : user_input' = text
    /\ memories' = << >>
    /\ index' = << >>
    /\ constructed' = TRUE
    /\ disk' = save_memories(<< >>)
    /\ pc' = "plan"
    /\ UNCHANGED <<max_history, similarity_threshold, hist, n_loaded, other>>
    /\ UNCHANGED <<ret, reasoning, script, reflection, score, suggestion, analysis, error,
                   gen_scene, trace>>

\* Line 194 raises on a malformed data/memories.json: the process ends.
StartFails ==
    /\ pc = "start"
    /\ LoadRaises(disk)
    /\ \E text \in MainTexts : user_input' = text
    /\ pc' = "crashed"
    /\ UNCHANGED storeVars
    /\ UNCHANGED <<ret, reasoning, script, reflection, score, suggestion, analysis, error,
                   gen_scene, trace>>

\* Lines 201 and 234: planner.plan(user_input, reflection) returns.
PlanOf(contents) ==
    /\ pc = "plan"
    /\ trace.cycles < MaxCycles
    /\ \E content \in contents :
         /\ reasoning' = ParsePlan(content).reasoning
         /\ script' = ParsePlan(content).script
    /\ trace' = [trace EXCEPT !.cycles = @ + 1,
                              !.given = reflection,
                              !.prompt = PlannerPrompt(user_input, reflection)]
    /\ pc' = "save_plan"
    /\ UNCHANGED storeVars
    /\ UNCHANGED <<ret, user_input, reflection, score, suggestion, analysis, error, gen_scene>>

Plan == PlanOf(PlannerContents)

\* The request to the planning model raises: the process ends.
PlanFails ==
    /\ pc = "plan"
    /\ trace.cycles < MaxCycles
    /\ pc' = "crashed"
    /\ UNCHANGED storeVars
    /\ UNCHANGED <<ret, user_input, reasoning, script, reflection, score, suggestion,
                   analysis, error, gen_scene, trace>>

\* The step that goes on without writing the file.
SavePlanNotWritten ==
    /\ pc = "save_plan"
    /\ pc' = "record_plan"
    /\ UNCHANGED storeVars
    /\ UNCHANGED <<ret, user_input, reasoning, script, reflection, score, suggestion,
                   analysis, error, gen_scene, trace>>

\* Lines 203 and 236: executor.save_script(script).
SavePlan ==
    /\ pc = "save_plan"
    /\ gen_scene' = save_script(script)
    /\ pc' = "record_plan"
    /\ UNCHANGED storeVars
    /\ UNCHANGED <<ret, user_input, reasoning, script, reflection, score, suggestion,
                   analysis, error, trace>>

\* Lines 205 and 238: the plan is recorded; the repair loop is entered.
RecordPlan ==
    /\ pc = "record_plan"
    /\ add_memory(user_input, PlanPayload(reasoning), ScriptPayload(script))
    /\ trace' = [trace EXCEPT !.loop = [entry |-> script, reports |-> << >>, calls |-> << >>]]
    /\ pc' = "await_error"
    /\ UNCHANGED <<ret, user_input, reasoning, script, reflection, score, suggestion,
                   analysis, error, gen_scene>>

\* Lines 214-216 and 241-243: the error report is read and stripped; an empty
\* one leaves the loop.
AwaitErrorOf(reports) ==
    /\ pc = "await_error"
    /\ \E report \in reports :
         /\ Strip(report) # << >> => trace.fixes < MaxRepairs
         /\ error' = Strip(report)
         /\ trace' = [trace EXCEPT !.loop.reports = Append(@, report)]
         /\ pc' = IF Strip(report) = << >> THEN "await_image" ELSE "fix"
    /\ UNCHANGED storeVars
    /\ UNCHANGED <<ret, user_input, reasoning, script, reflection, score, suggestion,
                   analysis, gen_scene>>

AwaitError == AwaitErrorOf(ErrorReports)

\* The repair whose result is not assigned to script.
FixKeepsScript ==
    /\ pc = "fix"
    /\ \E content \in FixContents :
         trace' = [trace EXCEPT !.fixes = @ + 1,
                                !.loop.calls =
                                   Append(@, [script |-> script, error |-> error,
                                              result |-> ParseFix(content)])]
    /\ pc' = "save_fix"
    /\ UNCHANGED storeVars
    /\ UNCHANGED <<ret, user_input, reasoning, script, reflection, score, suggestion,
                   analysis, error, gen_scene>>

\* Lines 217 and 244: fix_script_with_error(script, error, llm_client) returns.
FixOf(contents) ==
    /\ pc = "fix"
    /\ \E content \in contents :
         /\ script' = ParseFix(content)
         /\ trace' = [trace EXCEPT !.fixes = @ + 1,
                                   !.loop.calls =
                                      Append(@, [script |-> script, error |-> error,
                                                 result |-> ParseFix(content)])]
    /\ pc' = "save_fix"
    /\ UNCHANGED storeVars
    /\ UNCHANGED <<ret, user_input, reasoning, reflection, score, suggestion, analysis,
                   error, gen_scene>>

Fix == FixOf(FixContents)

\* The failure that takes the last attempt back out of the store.
FixFailsRollsBack ==
    /\ pc = "fix"
    /\ memories' = SubSeq(memories, 1, Len(memories) - 1)
    /\ index' = SubSeq(index, 1, Len(index) - 1)
    /\ disk' = save_memories(SubSeq(memories, 1, Len(memories) - 1))
    /\ pc' = "crashed"
    /\ UNCHANGED <<max_history, similarity_threshold, constructed, hist, n_loaded, other>>
    /\ UNCHANGED <<ret, user_input, reasoning, script, reflection, score, suggestion,
                   analysis, error, gen_scene, trace>>

\* The request to the repair model raises: the process ends.
FixFails ==
    /\ pc = "fix"
    /\ pc' = "crashed"
    /\ UNCHANGED storeVars
    /\ UNCHANGED <<ret, user_input, reasoning, script, reflection, score, suggestion,
                   analysis, error, gen_scene, trace>>

\* The save of a correction that also records an attempt.
SaveFixRecorded ==
    /\ pc = "save_fix"
    /\ gen_scene' = save_script(script)
    /\ add_memory(user_input, PlanPayload(reasoning), ScriptPayload(script))
    /\ pc' = "await_error"
    /\ UNCHANGED <<ret, user_input, reasoning, script, reflection, score, suggestion,
                   analysis, error, trace>>

\* The save that also writes the correction into the plan attempt of the cycle.
SaveFixAmends ==
    /\ pc = "save_fix"
    /\ gen_scene' = save_script(script)
    /\ memories' = [memories EXCEPT ![Len(memories)].verification_result = ScriptPayload(script)]
    /\ disk' = save_memories(memories')
    /\ pc' = "await_error"
    /\ UNCHANGED <<max_history, similarity_threshold, index, constructed, hist, n_loaded, other>>
    /\ UNCHANGED <<ret, user_input, reasoning, script, reflection, score, suggestion,
                   analysis, error, trace>>

\* Lines 218 and 245: executor.save_script(script).
SaveFix ==
    /\ pc = "save_fix"
    /\ gen_scene' = save_script(script)
    /\ pc' = "await_error"
    /\ UNCHANGED storeVars
    /\ UNCHANGED <<ret, user_input, reasoning, script, reflection, score, suggestion,
                   analysis, error, trace>>

\* Lines 223-224: the image path is read and verifier.verify returns.
VerifyOf(analyses) ==
    /\ pc = "await_image"
    /\ \E content \in analyses :
         /\ score' = ParseScore(content)
         /\ suggestion' = ParseSuggestion(content)
         /\ analysis' = content
    /\ trace' = [trace EXCEPT !.verifies = @ + 1, !.loop = NoLoop]
    /\ pc' = "record_verification"
    /\ UNCHANGED storeVars
    /\ UNCHANGED <<ret, user_input, reasoning, script, reflection, error, gen_scene>>

Verify == VerifyOf(Analyses)

\* The failure that is recorded as an attempt scored 0 before the process ends.
VerifyFailsRecorded ==
    /\ pc = "await_image"
    /\ add_memory(user_input, PlanPayload(reasoning),
                  VerificationPayload(<< >>, PyInt(0), <<"ERR">>))
    /\ pc' = "crashed"
    /\ UNCHANGED <<ret, user_input, reasoning, script, reflection, score, suggestion,
                   analysis, error, gen_scene, trace>>

\* The image cannot be opened or the request to the judging model raises: the
\* process ends.
VerifyFails ==
    /\ pc = "await_image"
    /\ pc' = "crashed"
    /\ UNCHANGED storeVars
    /\ UNCHANGED <<ret, user_input, reasoning, script, reflection, score, suggestion,
                   analysis, error, gen_scene, trace>>

\* Line 226: the verification outcome is recorded.
RecordVerification ==
    /\ pc = "record_verification"
    /\ add_memory(user_input, PlanPayload(reasoning),
                  [analysis |-> PyStr(analysis), score |-> score,
                   suggestion |-> PyStr(suggestion)])
    /\ pc' = "decide"
    /\ UNCHANGED <<ret, user_input, reasoning, script, reflection, score, suggestion,
                   analysis, error, gen_scene, trace>>

\* The acceptance test that lets a score of exactly 85 fall through.
AcceptsAbove(sc) == sc.tag = "int" /\ sc.v > AcceptScore

\* Line 227: score is not None and score >= 85
Accepts(sc) == sc.tag = "int" /\ sc.v >= AcceptScore

\* The decision without the break: the loop goes on after an accepted score.
DecideNoBreak ==
    /\ pc = "decide"
    /\ pc' = "reflect"
    /\ UNCHANGED storeVars
    /\ UNCHANGED <<ret, user_input, reasoning, script, reflection, score, suggestion,
                   analysis, error, gen_scene, trace>>

\* The decision that plans again after an accepted score.
DecidePlansAgain ==
    /\ pc = "decide"
    /\ pc' = IF Accepts(score) THEN "plan" ELSE "reflect"
    /\ UNCHANGED storeVars
    /\ UNCHANGED <<ret, user_input, reasoning, script, reflection, score, suggestion,
                   analysis, error, gen_scene, trace>>

\* The decision that gives up after the second PLAN.
DecideCapped ==
    /\ pc = "decide"
    /\ pc' = IF Accepts(score) \/ trace.cycles >= 2 THEN "done" ELSE "reflect"
    /\ UNCHANGED storeVars
    /\ UNCHANGED <<ret, user_input, reasoning, script, reflection, score, suggestion,
                   analysis, error, gen_scene, trace>>

\* Lines 227-229: break on an accepted score, else go on to the reflection.
Decide ==
    /\ pc = "decide"
    /\ pc' = IF Accepts(score) THEN "done" ELSE "reflect"
    /\ UNCHANGED storeVars
    /\ UNCHANGED <<ret, user_input, reasoning, script, reflection, score, suggestion,
                   analysis, error, gen_scene, trace>>

\* The reflection after which the image is asked for again, with no new plan.
ReflectThenVerify ==
    /\ pc = "reflect"
    /\ reflection' = PyStr(reflect_on_memory(memories))
    /\ pc' = "await_image"
    /\ UNCHANGED storeVars
    /\ UNCHANGED <<ret, user_input, reasoning, script, score, suggestion, analysis, error,
                   gen_scene, trace>>

\* Line 231: reflection = reflect_on_memory(memory)
Reflect ==
    /\ pc = "reflect"
    /\ reflection' = PyStr(reflect_on_memory(memories))
    /\ pc' = "plan"
    /\ UNCHANGED storeVars
    /\ UNCHANGED <<ret, user_input, reasoning, script, score, suggestion, analysis, error,
                   gen_scene, trace>>

Next ==
    \/ Start
    \/ StartFails
    \/ Plan
    \/ PlanFails
    \/ SavePlan
    \/ RecordPlan
    \/ AwaitError
    \/ Fix
    \/ FixFails
    \/ SaveFix
    \/ Verify
    \/ VerifyFails
    \/ RecordVerification
    \/ Decide
    \/ Reflect

Spec == Init /\ [][Next]_vars

\* main() is one sequential process: a step that can be taken is taken (the
\* interpreter runs on, input() returns once a line is typed, a request to a
\* model returns or raises).  Which line is typed and what a model answers
\* stay free.
\* The same session over fewer answers: a plan in two sections and one the
\* parser falls back on, one repair, an error text and the two empty reports,
\* an analysis that names no score, one scored 84 and one scored 85; no file,
\* a malformed one, or the records of an earlier session.
LivePlans == {<<"KW_REASONING", "r2", "KW_SCRIPT", "SP", "A2">>, <<"A3", "NL">>}
LiveFixes == {<<"B2", "NL">>}
LiveReports == {<< >>, <<"SP">>, <<"E1">>}
LiveAnalyses ==
    {<<"KW_SCORE", "COLON", "8", "4", "NL", "KW_SUGGEST", "COLON", "t2", "NL">>,
     <<"KW_SCORE", "COLON", "8", "5", "NL", "KW_SUGGEST", "COLON", "t1">>,
     <<"x1", "KW_SUGGEST", "COLON", "t2">>}
LiveDisks == {NoFile, Malformed, JsonFile(EarlierRecords)}

InitLive == Init /\ disk \in LiveDisks

NextLive ==
    \/ Start
    \/ StartFails
    \/ PlanOf(LivePlans)
    \/ PlanFails
    \/ SavePlan
    \/ RecordPlan
    \/ AwaitErrorOf(LiveReports)
    \/ FixOf(LiveFixes)
    \/ FixFails
    \/ SaveFix
    \/ VerifyOf(LiveAnalyses)
    \/ VerifyFails
    \/ RecordVerification
    \/ Decide
    \/ Reflect

SpecLive == InitLive /\ [][NextLive]_vars /\ WF_vars(NextLive)

(***************************************************************************)
(* reflect_on_memory over the stores add_memory can build.                 *)
(***************************************************************************)
\* The verification payloads: a plan record's, scores absent, 0, 60, 84 and 85
\* with and without suggestion, and one of the overall_score shape.
ReflectResults ==
    {ScriptPayload(<<"A1">>),
     VerificationPayload(<<"a1">>, PyNone, <<"t1">>),
     VerificationPayload(<<"a1">>, PyInt(0), <<"t1">>),
     VerificationPayload(<<"a1">>, PyInt(60), <<"t2">>),
     VerificationPayload(<<"a1">>, PyInt(84), <<"t1">>),
     VerificationPayload(<<"a1">>, PyInt(84), << >>),
     VerificationPayload(<<"a1">>, PyInt(85), <<"t1">>),
     OverallPayload(PyInt(60), <<"t3">>)}

\* The reflection that takes the attempts it reports out of the store.
ReflectOnMemoryConsumes ==
    /\ pc = "idle"
    /\ constructed
    /\ ret' = [op |-> "reflect_on_memory", raised |-> FALSE,
               value |-> reflect_on_memory(memories)]
    /\ LET kept == SelectSeq(memories, LAMBDA m : ~IsProblem(m))
       IN  /\ memories' = kept
           /\ index' = IndexAdd(<< >>, Embeddings(kept))
    /\ UNCHANGED <<max_history, similarity_threshold, disk, constructed, hist, n_loaded, other>>
    /\ UNCHANGED mainVars

\* reflect_on_memory(memory)
ReflectOnMemory ==
    /\ pc = "idle"
    /\ constructed
    /\ ret' = [op |-> "reflect_on_memory", raised |-> FALSE,
               value |-> reflect_on_memory(memories)]
    /\ UNCHANGED storeVars
    /\ UNCHANGED mainVars

InitReflect == InitWith({DefaultMaxHistory}, {DefaultThreshold}, {NoFile, JsonFile(EarlierRecords)})
NextReflect ==
    \/ Construct
    \/ AddMemory(MainTexts, StorePlans, ReflectResults)
    \/ ReflectOnMemory

SpecReflect == InitReflect /\ [][NextReflect]_vars

(***************************************************************************)
(* Properties of the store.                                                *)
(***************************************************************************)
AddReturned == ret.op = "add_memory" /\ ~ret.raised
Evicted == AddReturned /\ ret.evicted > 0

\* C1: each time add_memory returns, the number of stored attempts is at most
\* max_history, for every max_history >= 0 (0 and 1 included).
C1_BoundedAfterAdd == AddReturned => Len(memories) <= max_history

\* C2: whenever add_memory evicts (removes at least one attempt), the attempts
\* retained are exactly the max_history most recently inserted ones, in their
\* insertion order.
C2_EvictionKeepsNewest ==
    Evicted =>
        /\ Len(memories) = max_history
        /\ Len(hist) >= max_history
        /\ \A i \in 1..max_history : memories[i] = hist[Len(hist) - max_history + i]

C2_Witness == Evicted /\ max_history >= 2 /\ memories[1] # memories[2]

\* C3: in every state of a constructed store the index holds one row per
\* retained attempt, and row i is the embedding of the instruction of attempt i.
C3_IndexMatchesList ==
    constructed =>
        /\ Len(index) = Len(memories)
        /\ \A i \in 1..Len(memories) : index[i] = simple_embed(memories[i].instruction)

C3_Witness ==
    /\ Evicted
    /\ n_loaded > 0
    /\ Len(memories) >= 2
    /\ memories[1].instruction # memories[2].instruction

RECURSIVE QueryDistances(_, _)
\* The distance of each record of a list to the embedding q.
QueryDistances(records, q) ==
    IF records = << >> THEN << >>
    ELSE <<SqDist(simple_embed(Head(records).instruction), q)>>
           \o QueryDistances(Tail(records), q)

\* The distances of the stored attempts, and of the attempts returned, to the
\* query of the last search.
StoredDist == QueryDistances(memories, simple_embed(ret.instruction))
ReturnedDist == QueryDistances(ret.value, simple_embed(ret.instruction))

SearchReturned == ret.op = "search_similar" /\ ~ret.raised

\* How many of the kk nearest stored attempts lie at distance v, given the
\* distances d of the stored attempts.
NearestAt(d, v, kk) ==
    LET nearer == Cardinality({j \in 1..Len(d) : d[j] < v})
        at == Cardinality({j \in 1..Len(d) : d[j] = v})
    IN  IF kk - nearer <= 0 THEN 0 ELSE Min(at, kk - nearer)

\* C8: on a non-empty store and for k >= 1, search_similar returns at most k
\* attempts, each stored and at a distance strictly below the threshold, in
\* non-decreasing distance, and they are the attempts below the threshold among
\* the min(k, stored) nearest.
C8_SearchResult ==
    (SearchReturned /\ ret.k >= 1 /\ Len(memories) >= 1) =>
        LET res == ret.value
            kk == Min(ret.k, Len(memories))
            d == StoredDist
            r == ReturnedDist
        IN  /\ Len(res) <= ret.k
            /\ \A i \in 1..Len(res) :
                 /\ \E j \in 1..Len(memories) : memories[j] = res[i]
                 /\ r[i] < similarity_threshold
            /\ \A i, j \in 1..Len(res) : i < j => r[i] <= r[j]
            /\ \A j \in 1..Len(memories) :
                 Cardinality({i \in 1..Len(res) : r[i] = d[j]})
                   = IF d[j] < similarity_threshold THEN NearestAt(d, d[j], kk) ELSE 0

C8_Witness ==
    /\ SearchReturned
    /\ Len(memories) >= 2
    /\ Len(ret.value) >= 1
    /\ Len(ret.value) < Min(ret.k, Len(memories))
    /\ \E j \in 1..Len(memories) : StoredDist[j] = similarity_threshold

\* C9: on a store with zero attempts search_similar returns an empty sequence
\* and raises nothing, for every instruction and every k.
C9_EmptyStoreSearch ==
    (ret.op = "search_similar" /\ Len(memories) = 0) => (~ret.raised /\ ret.value = << >>)

(***************************************************************************)
(* Properties of the session.                                              *)
(***************************************************************************)
\* C4: after every VERIFY the session goes to DONE if and only if the score is
\* present and at least 85; in every other case, an absent score included, it
\* goes to REFLECT and from there to PLAN.
C4_Decision ==
    [][/\ pc = "decide" =>
            pc' = IF score.tag = "int" /\ score.v >= 85 THEN "done" ELSE "reflect"
       /\ pc = "reflect" => pc' = "plan"
       /\ pc' = "decide" => pc = "record_verification"
       /\ pc' = "done" => pc = "decide"]_vars

C4_Witness ==
    /\ pc = "done"
    /\ score = PyInt(85)
    /\ trace.cycles = 2
    /\ memories[n_loaded + 2].verification_result.score = PyNone

\* C5: DONE is terminal: once a verification has returned a score of at least
\* 85 and has been recorded, the session takes no further step: nothing is
\* planned, saved, repaired, verified, reflected on or added to the store.
C5_DoneTerminal ==
    [][((pc = "decide" /\ score.tag = "int" /\ score.v >= 85) \/ pc = "done") =>
          /\ pc' = "done"
          /\ UNCHANGED <<storeVars, reasoning, script, reflection, score, suggestion,
                         analysis, gen_scene, trace>>]_vars

C5_Witness ==
    /\ pc = "done"
    /\ score.tag = "int"
    /\ score.v >= 85
    /\ trace.cycles = 2
    /\ Len(memories) = n_loaded + 4

\* C6: from an empty store, after one cycle in which the planner returned an
\* artifact, no execution error was reported and the verifier returned a score
\* s < 85 with a non-empty suggestion t, the store holds exactly two attempts
\* (the plan, then the verification), the guidance of REFLECT contains s and t,
\* and the next planner call is given exactly that guidance as its reflection.
C6_FirstCycle ==
    (/\ pc = "save_plan"
     /\ trace.cycles = 2
     /\ trace.fixes = 0
     /\ n_loaded = 0
     /\ score.tag = "int"
     /\ score.v < 85
     /\ suggestion # << >>) =>
        /\ Len(memories) = 2
        /\ DOMAIN memories[1].verification_result = {"script"}
        /\ memories[2].verification_result =
             [analysis |-> PyStr(analysis), score |-> score, suggestion |-> PyStr(suggestion)]
        /\ reflection.tag = "str"
        /\ Contains(reflection.v, IntStr(score.v))
        /\ Contains(reflection.v, suggestion)
        /\ trace.given = reflection

\* The outcome of a repair loop that has exited, for a reading Empty of which
\* reports count as empty: every report but the last was non-empty and the last
\* was empty, one round trip was made per non-empty report, each given the
\* then-current artifact and the text of that report, the artifact was replaced
\* by each correction in turn, and the loop left the last correction (the
\* artifact it was entered with when there was none).
LoopOutcome(Empty(_)) ==
    LET reps == trace.loop.reports
        calls == trace.loop.calls
        n == Len(reps) - 1
    IN  /\ Len(reps) >= 1
        /\ Empty(reps[Len(reps)])
        /\ \A i \in 1..n : ~Empty(reps[i])
        /\ Len(calls) = n
        /\ \A i \in 1..n :
             /\ calls[i].error = Strip(reps[i])
             /\ calls[i].script = IF i = 1 THEN trace.loop.entry ELSE calls[i - 1].result
        /\ script = IF n = 0 THEN trace.loop.entry ELSE calls[n].result

IsEmptyText(r) == r = << >>
IsBlankText(r) == Strip(r) = << >>

\* C7 as stated: n non-empty error reports followed by one empty report give
\* exactly n repair round trips, and the loop exits on the first empty report
\* with the last corrected artifact.
C7_RepairLoopAsStated == pc = "await_image" => LoopOutcome(IsEmptyText)

\* C7: the same with "empty" read as the code reads it, empty once the
\* surrounding whitespace is stripped: a report of blanks only ends the loop.
C7_RepairLoop == pc = "await_image" => LoopOutcome(IsBlankText)

C7_Witness ==
    /\ pc = "await_image"
    /\ Len(trace.loop.calls) = 2
    /\ trace.loop.calls[1].result # trace.loop.calls[2].result
    /\ trace.loop.calls[1].error # trace.loop.calls[2].error
    /\ trace.loop.reports[3] # << >>

(***************************************************************************)
(* Properties of the reflection.                                           *)
(***************************************************************************)
RECURSIVE SplitLines(_)
\* text.split("\n")
SplitLines(s) ==
    IF Has(s, "NL")
    THEN <<BeforeFirst(s, "NL")>> \o SplitLines(AfterFirst(s, "NL"))
    ELSE <<s>>

\* The problem lines of a guidance: what follows the preamble line.
GuidanceLines(g) == IF g = << >> THEN << >> ELSE Tail(SplitLines(g))

\* The score and the suggestion a verification payload carries, under either
\* of the two names of each field.
CarriedScore(vr) ==
    IF "score" \in DOMAIN vr /\ vr["score"].tag = "int" THEN vr["score"]
    ELSE IF "overall_score" \in DOMAIN vr THEN vr["overall_score"]
    ELSE PyNone
CarriedSuggestion(vr) ==
    IF "suggestion" \in DOMAIN vr /\ vr["suggestion"].v # << >> THEN vr["suggestion"].v
    ELSE IF "suggestions" \in DOMAIN vr THEN vr["suggestions"].v
    ELSE << >>

\* A numeric score strictly below 85 (0 included) with a non-empty suggestion.
Qualifies(m) ==
    /\ CarriedScore(m.verification_result).tag = "int"
    /\ CarriedScore(m.verification_result).v < 85
    /\ CarriedSuggestion(m.verification_result) # << >>

RECURSIVE ExpectedLines(_)
ExpectedLines(mems) ==
    IF mems = << >> THEN << >>
    ELSE (IF Qualifies(Head(mems))
          THEN <<ProblemLine(CarriedScore(Head(mems).verification_result).v,
                             CarriedSuggestion(Head(mems).verification_result))>>
          ELSE << >>) \o ExpectedLines(Tail(mems))

\* C10: for every store content the guidance holds exactly one line for each
\* stored attempt with a numeric score s < 85 (s = 0 included) and a non-empty
\* suggestion, in insertion order, and no line for any other attempt.
C10_ReflectLines ==
    ret.op = "reflect_on_memory" => GuidanceLines(ret.value) = ExpectedLines(memories)

\* C11: reflect_on_memory returns the empty string whenever no stored attempt
\* qualifies (a numeric score below 85 with a non-empty suggestion): for the
\* empty store, and for a store whose scored attempts all have a score >= 85.
C11_NoGuidance ==
    (ret.op = "reflect_on_memory" /\ \A i \in 1..Len(memories) : ~Qualifies(memories[i]))
        => ret.value = << >>

\* A reflection over a non-empty store that holds an attempt scored 85 with a
\* suggestion and no qualifying attempt.
C11_Witness ==
    /\ ret.op = "reflect_on_memory"
    /\ \E i \in 1..Len(memories) :
         /\ CarriedScore(memories[i].verification_result) = PyInt(85)
         /\ CarriedSuggestion(memories[i].verification_result) # << >>
    /\ \A i \in 1..Len(memories) : ~Qualifies(memories[i])
    /\ ret.value = << >>

(***************************************************************************)
(* Properties of the durable record set.                                   *)
(***************************************************************************)
\* C12: each time add_memory returns, the file has been overwritten in full
\* and holds exactly the in-memory attempt list, in order, also when the call
\* evicted entries: it holds no attempt the list has evicted.
C12_DiskEqualsList ==
    AddReturned =>
        /\ disk.exists /\ disk.valid
        /\ Len(disk.data) = Len(memories)
        /\ \A i \in 1..Len(memories) : ParseRecord(disk.data[i]) = memories[i]
        /\ disk = save_memories(memories)

\* An add_memory that evicted from a list of differing attempts.
C12_Witness ==
    /\ Evicted
    /\ Len(memories) >= 2
    /\ memories[1] # memories[2]
    /\ Len(disk.data) = Len(memories)

\* C13: a store constructed from the storage another store has written (after
\* any sequence of add_memory calls) has that store's attempt list in the same
\* order; a store constructed when no file exists starts empty.
C13_RoundTrip ==
    [][(ret'.op = "construct" /\ ~ret'.raised) =>
          /\ constructed => memories' = memories
          /\ ~disk.exists => memories' = << >>]_vars

\* A store constructed from a file that an earlier store wrote with at least
\* two differing attempts, one of them added by that store.
C13_Witness ==
    /\ ret.op = "construct" /\ ~ret.raised
    /\ n_loaded >= 2
    /\ Len(memories) = n_loaded
    /\ memories[1] # memories[2]
    /\ \E i \in 1..Len(memories) : "score" \in DOMAIN memories[i].verification_result

\* C14: the number of stored attempts never exceeds max_history in any state
\* of a store instance, also right after construction from a file written
\* under a larger max_history.
C14_BoundedAlways == constructed => Len(memories) <= max_history

(***************************************************************************)
(* Properties of the session: failures of the collaborators.               *)
(***************************************************************************)
\* The step in which planner.plan raises, and the one in which verifier.verify raises.
PlannerFailed == pc = "plan" /\ pc' = "crashed"
VerifierFailed == pc = "await_image" /\ pc' = "crashed"

\* The store holds what the last completed add_memory left.
AsLastAddLeft ==
    Len(hist) > n_loaded =>
        /\ disk = save_memories(memories)
        /\ index = IndexAdd(<< >>, Embeddings(memories))

\* C15: when a Planner or Verifier call fails the cycle ends (nothing runs
\* after it) and the attempt list, the index and the file are exactly what the
\* last completed add_memory left; the failed step adds no attempt.
C15_FailureLeavesStore ==
    [][/\ (PlannerFailed \/ VerifierFailed) =>
             /\ UNCHANGED <<memories, index, disk, hist>>
             /\ AsLastAddLeft
       /\ pc \notin {"start", "record_plan", "record_verification"} =>
             UNCHANGED <<memories, index, disk>>
       /\ pc # "crashed"]_vars

\* The verifier has failed in a session whose store holds attempts this
\* session added: the repair loop was left on a blank report and no
\* verification followed.
C15_Witness ==
    /\ pc = "crashed"
    /\ constructed
    /\ Len(hist) > n_loaded
    /\ error = << >>
    /\ trace.loop.reports # << >>
    /\ disk = save_memories(memories)

\* C16: when the Verifier call fails or returns content without a score, a
\* verification attempt is still recorded, with a zero or absent score and the
\* failure text as its suggestion, and the next reflection holds a line for it.
C16_FailureRecorded ==
    [][/\ VerifierFailed =>
             /\ Len(memories') = Len(memories) + 1
             /\ LET vr == memories'[Len(memories')].verification_result
                 IN  /\ DictGet(vr, "score") \in {PyNone, PyInt(0)}
                     /\ Truthy(DictGet(vr, "suggestion"))
       /\ (pc = "reflect" /\ pc' = "plan" /\ score = PyNone /\ suggestion # << >>) =>
             \E i \in 1..Len(GuidanceLines(reflection'.v)) :
                Contains(GuidanceLines(reflection'.v)[i], suggestion)]_vars

\* C17: planner.plan raises whenever the response cannot be decomposed into
\* reasoning and artifact: a plan step that returns took its artifact from a
\* response that holds the artifact marker, and the artifact is not empty.
C17_PlanFailsExplicitly ==
    [][(pc = "plan" /\ pc' = "save_plan") =>
          /\ script' # << >>
          /\ \E content \in PlannerContents :
               /\ Has(content, "KW_SCRIPT")
               /\ script' = ParsePlan(content).script
               /\ reasoning' = ParsePlan(content).reasoning]_vars

\* C18: with a malformed data/memories.json the only step of the session is
\* the failing construction: no store comes to exist, no planner, executor or
\* verifier step runs, and the file is left as it was.
C18_MalformedIsFatal ==
    [][LoadRaises(disk) =>
          /\ pc = "start" /\ pc' = "crashed"
          /\ ~constructed'
          /\ disk' = disk
          /\ UNCHANGED <<memories, index, gen_scene, trace, reasoning, script>>]_vars

\* The session has ended on the malformed file.
C18_Witness ==
    /\ pc = "crashed"
    /\ LoadRaises(disk)
    /\ ~constructed
    /\ user_input # << >>
    /\ trace.cycles = 0

(***************************************************************************)
(* SceneMemory.analyze_patterns (core/memory.py).                          *)
(***************************************************************************)
\* A counting dict is kept as the sequence of its items <<key, count>> in
\* insertion order (the order dict.items() yields).
\* d[key] = d.get(key, 0) + 1
Bump(d, key) ==
    IF \E i \in 1..Len(d) : d[i][1] = key
    THEN [i \in 1..Len(d) |-> IF d[i][1] = key THEN <<key, d[i][2] + 1>> ELSE d[i]]
    ELSE Append(d, <<key, 1>>)

RECURSIVE CountTypes(_, _)
\* Lines 119-121 and 129-131: for item in items: d[item["type"]] += 1; an item
\* without "type" raises KeyError.
CountTypes(items, d) ==
    IF items = << >> THEN [raised |-> FALSE, d |-> d]
    ELSE IF "type" \notin DOMAIN Head(items) THEN [raised |-> TRUE, d |-> d]
    ELSE CountTypes(Tail(items), Bump(d, Head(items)["type"]))

RECURSIVE InsertByFreq(_, _)
\* x goes behind every item whose count is at least its own.
InsertByFreq(x, l) ==
    IF l = << >> THEN <<x>>
    ELSE IF Head(l)[2] >= x[2] THEN <<Head(l)>> \o InsertByFreq(x, Tail(l))
    ELSE <<x>> \o l

\* The items as they were inserted, not sorted.
ItemsAsInserted(d) == d

RECURSIVE sort_by_freq(_)
\* Lines 134-135: sorted(d.items(), key=lambda x: x[1], reverse=True); sorted
\* is stable, also with reverse=True, so items of equal count keep their order.
sort_by_freq(d) ==
    IF d = << >> THEN << >>
    ELSE InsertByFreq(d[Len(d)], sort_by_freq(SubSeq(d, 1, Len(d) - 1)))

KeyError == [raised |-> TRUE]

RECURSIVE CollectStatistics(_, _, _, _)
\* Lines 115-131: the three counting dicts after the loop over the attempts,
\* or KeyError from scene_plan["objects"] or from an item's ["type"].
CollectStatistics(mems, objects, styles, relationships) ==
    IF mems = << >>
    THEN [raised |-> FALSE, objects |-> objects, styles |-> styles,
          relationships |-> relationships]
    ELSE LET scene_plan == Head(mems).scene_plan
         IN  IF "objects" \notin DOMAIN scene_plan THEN KeyError
             ELSE LET o == CountTypes(scene_plan["objects"].v, objects)
                      st == IF "style" \in DOMAIN scene_plan
                            THEN Bump(styles, scene_plan["style"])
                            ELSE styles
                      r == CountTypes(IF "relationships" \in DOMAIN scene_plan
                                      THEN scene_plan["relationships"].v
                                      ELSE << >>,
                                      relationships)
                  IN  IF o.raised \/ r.raised THEN KeyError
                      ELSE CollectStatistics(Tail(mems), o.d, st, r.d)

\* analyze_patterns(): the outcome of one call on the attempt list mems.
analyze_patterns(mems) ==
    IF mems = << >>
    THEN [raised |-> FALSE,
          value |-> [common_objects |-> << >>, common_styles |-> << >>,
                     common_relationships |-> << >>]]
    ELSE LET c == CollectStatistics(mems, << >>, << >>, << >>)
         IN  IF c.raised THEN [raised |-> TRUE, value |-> PyNone]
             ELSE [raised |-> FALSE,
                   value |-> [common_objects |-> sort_by_freq(c.objects),
                              common_styles |-> sort_by_freq(c.styles),
                              common_relationships |-> sort_by_freq(c.relationships)]]

\* An object or relationship entry of a plan.
Typed(t) == [type |-> PyStr(<<t>>)]

\* The plan payloads of the stores analyze_patterns is run on: the {reasoning}
\* payload main() records, and plans with objects only, with objects, style
\* and relationships, and with objects and another style.
PatternPlans ==
    {PlanPayload(<<"r1">>),
     [objects |-> PyList(<<Typed("cube")>>)],
     [objects |-> PyList(<<Typed("cube"), Typed("sphere"), Typed("sphere")>>),
      style |-> PyStr(<<"s1">>),
      relationships |-> PyList(<<Typed("on")>>)],
     [objects |-> PyList(<<Typed("sphere")>>), style |-> PyStr(<<"s2">>)]}

\* analyze_patterns() on the store; `prior` holds the outcome of the call
\* before it when no other call came between the two.
AnalyzePatterns ==
    /\ pc = "idle"
    /\ constructed
    /\ LET out == analyze_patterns(memories)
       IN  ret' = [op |-> "analyze_patterns", raised |-> out.raised, value |-> out.value,
                   prior |-> IF ret.op = "analyze_patterns"
                             THEN <<[raised |-> ret.raised, value |-> ret.value]>>
                             ELSE << >>]
    /\ UNCHANGED storeVars
    /\ UNCHANGED mainVars

InitPatterns == InitWith({MaxHistory, DefaultMaxHistory}, {DefaultThreshold}, {NoFile})
NextPatterns ==
    \/ Construct
    \/ AddMemory(MainTexts, PatternPlans, ScriptResults)
    \/ AnalyzePatterns

SpecPatterns == InitPatterns /\ [][NextPatterns]_vars

(***************************************************************************)
(* Properties of analyze_patterns.                                         *)
(***************************************************************************)
HasSubstructure(m) == "objects" \in DOMAIN m.scene_plan

\* C19: for every store content analyze_patterns returns its three lists
\* without raising; attempts whose plan payload lacks the objects, style or
\* relationships substructure are skipped.
C19_Tolerant ==
    ret.op = "analyze_patterns" =>
        /\ ~ret.raised
        /\ ret.value = analyze_patterns(SelectSeq(memories, HasSubstructure)).value

Descending(l) == \A i, j \in 1..Len(l) : i < j => l[i][2] >= l[j][2]

Before(p) ==
    CASE p = "plan" -> {"start", "reflect"}
      [] p = "save_plan" -> {"plan"}
      [] p = "record_plan" -> {"save_plan"}
      [] p = "await_error" -> {"record_plan", "save_fix"}
      [] p = "fix" -> {"await_error"}
      [] p = "save_fix" -> {"fix"}
      [] p = "await_image" -> {"await_error"}
      [] p = "record_verification" -> {"await_image"}
      [] p = "decide" -> {"record_verification"}
      [] p = "reflect" -> {"decide"}
      [] p = "done" -> {"decide"}
      [] p = "crashed" -> {"start", "plan", "fix", "await_image"}
      [] OTHER -> {}

\* PLAN, EXECUTE(save), REPAIR*, VERIFY, then DONE or REFLECT and PLAN again:
\* the positions follow one another in that order; a PLAN is requested only
\* when every earlier PLAN has had its VERIFY; the save that follows writes the
\* plan's artifact; a VERIFY comes after exactly one PLAN since the VERIFY
\* before it and after a repair loop whose last report was Empty; REFLECT
\* comes only from the decision on a score that is not accepted.
StageOrder(Empty(_)) ==
    /\ pc' \in {"plan", "save_plan", "record_plan", "await_error", "fix", "save_fix",
                 "await_image", "record_verification", "decide", "reflect", "done",
                 "crashed"}
    /\ pc \in Before(pc')
    /\ (pc = "plan" /\ pc' = "save_plan") => trace.cycles = trace.verifies
    /\ pc = "save_plan" => gen_scene'.text = script /\ script' = script
    /\ (pc = "await_image" /\ pc' = "record_verification") =>
          /\ trace.cycles = trace.verifies + 1
          /\ trace.loop.reports # << >>
          /\ Empty(trace.loop.reports[Len(trace.loop.reports)])
    /\ pc' = "reflect" => ~(score.tag = "int" /\ score.v >= 85)

\* C22 as stated: the stages occur in the order PLAN, EXECUTE(save), REPAIR*,
\* VERIFY, every VERIFY coming after exactly one PLAN, the save of its artifact
\* and a repair loop that exited on an empty error report; no two PLANs
\* without a VERIFY between them; REFLECT only directly after a VERIFY that
\* did not reach DONE.
C22_StageOrderAsStated == [][StageOrder(IsEmptyText)]_vars

\* C22: the same, the repair loop having exited on a report that is empty
\* once the surrounding whitespace is stripped.
C22_StageOrder == [][StageOrder(IsBlankText)]_vars

\* The second VERIFY of a session has run, after a repair.
C22_Witness ==
    /\ pc = "record_verification"
    /\ trace.cycles = 2
    /\ trace.verifies = 2
    /\ trace.fixes >= 1
    /\ reflection.tag = "str"

\* The attempts this session has added, in order.
Added == SubSeq(hist, n_loaded + 1, Len(hist))

\* The PLAN and VERIFY steps whose add_memory has returned.
PlansRecorded == trace.cycles - (IF pc \in {"save_plan", "record_plan"} THEN 1 ELSE 0)
VerifiesRecorded == trace.verifies - (IF pc = "record_verification" THEN 1 ELSE 0)

\* C23: every PLAN step and every VERIFY step performs exactly one add_memory
\* (the store grows by one attempt per such step, max_history not being
\* reached), and EXECUTE, REPAIR and REFLECT perform none: at every position
\* the attempts added are one per recorded PLAN and VERIFY, in turn.
C23_OneAddPerStep ==
    constructed =>
        /\ Len(Added) = PlansRecorded + VerifiesRecorded
        /\ Len(memories) = n_loaded + Len(Added)
        /\ \A k \in 1..Len(Added) :
             /\ Added[k].instruction = user_input
             /\ DOMAIN Added[k].verification_result =
                  IF k % 2 = 1 THEN {"script"} ELSE {"analysis", "score", "suggestion"}

\* Two PLAN steps, two VERIFY steps and at least one repair have run on a
\* store that was loaded with attempts.
C23_Witness ==
    /\ pc = "decide"
    /\ trace.cycles = 2
    /\ trace.verifies = 2
    /\ trace.fixes >= 1
    /\ n_loaded = 2
    /\ Len(memories) = 6

\* C24: whenever the session waits for an error report or for the rendered
\* image, gen_scene.py holds the current artifact: every PLAN result and every
\* correction has been saved before the next input is asked for.
C24_SavedIsCurrent ==
    pc \in {"await_error", "await_image"} => gen_scene.exists /\ gen_scene.text = script

\* The session waits for an error report after a correction that changed the artifact.
C24_Witness ==
    /\ pc = "await_error"
    /\ Len(trace.loop.calls) >= 1
    /\ script # trace.loop.entry
    /\ gen_scene.text = script

\* C25: the first PLAN is requested with no reflection, and a PLAN that
\* follows a REFLECT with empty guidance is requested with the very prompt of
\* a request without reflection (no reflection section), the session going on.
C25_EmptyGuidanceOmitted ==
    pc \in {"save_plan", "record_plan", "await_error", "fix", "save_fix", "await_image",
            "record_verification", "decide", "done"} =>
        /\ trace.given = reflection
        /\ trace.cycles = 1 => trace.given = PyNone
        /\ trace.cycles >= 2 => trace.given.tag = "str"
        /\ trace.given \in {PyNone, PyStr(<< >>)} =>
              /\ trace.prompt = PlannerPrompt(user_input, PyNone)
              /\ trace.prompt.section = << >>
        /\ trace.given \notin {PyNone, PyStr(<< >>)} =>
              Contains(trace.prompt.section, trace.given.v)

\* A second PLAN has returned after a REFLECT that gave the empty guidance.
C25_Witness ==
    /\ pc = "save_plan"
    /\ trace.cycles = 2
    /\ trace.given = PyStr(<< >>)
    /\ trace.prompt.section = << >>

\* The verifications of this session that were not accepted.
NotAccepted(m) ==
    /\ "score" \in DOMAIN m.verification_result
    /\ ~(m.verification_result["score"].tag = "int"
         /\ m.verification_result["score"].v >= 85)

\* C26: no iteration cap and no FAILED state: after n verifications, none of
\* them accepted, the session is at its n-th return to PLAN, which it can
\* take; it ends only in DONE, on an accepted score, or by a failure of a
\* collaborator; the decision and the next PLAN are possible wherever the
\* session stands at them.
C26_NoCap ==
    /\ pc \in {"start", "plan", "save_plan", "record_plan", "await_error", "fix", "save_fix",
                "await_image", "record_verification", "decide", "reflect", "done", "crashed"}
    /\ (pc \in {"plan", "reflect"} /\ constructed) =>
          /\ trace.cycles = trace.verifies
          /\ Len(SelectSeq(Added, NotAccepted)) = trace.verifies
    /\ (pc = "plan" /\ trace.cycles < MaxCycles) => ENABLED Plan
    /\ pc = "decide" => ENABLED Decide
    /\ pc = "done" => score.tag = "int" /\ score.v >= 85

\* The session is back at PLAN after two verifications that were not
\* accepted, one of them without a score.
C26_Witness ==
    /\ pc = "plan"
    /\ trace.cycles = 2
    /\ trace.verifies = 2
    /\ \E k \in 1..Len(Added) :
         /\ "score" \in DOMAIN Added[k].verification_result
         /\ Added[k].verification_result["score"] = PyNone
    /\ \E k \in 1..Len(Added) :
         /\ "score" \in DOMAIN Added[k].verification_result
         /\ Added[k].verification_result["score"] = PyInt(84)

\* C27: wherever a run is abandoned between two steps, nothing has been
\* rolled back and the file holds exactly what the last completed add_memory
\* wrote: every attempt loaded or added so far, in order.
C27_AbandonedRun ==
    constructed =>
        /\ memories = hist
        /\ Len(hist) = n_loaded => load_memories(disk) = hist
        /\ Len(hist) > n_loaded => disk = save_memories(hist)
        /\ trace.cycles >= 1 => gen_scene.exists

\* The session waits for the image in its second cycle, after a repair, on a
\* store that was loaded with attempts.
C27_Witness ==
    /\ pc = "await_image"
    /\ trace.cycles = 2
    /\ trace.fixes >= 1
    /\ n_loaded = 2
    /\ Len(hist) = 5
    /\ disk = save_memories(hist)

(***************************************************************************)
(* _simple_embed called on its own, on store instances in any state.       *)
(***************************************************************************)
\* dimension characters "a" followed by tail.
LongText(tail) == [i \in 1..dimension |-> 97] \o tail

\* The texts embedded: "a", the character U+4E2D, and two texts of
\* dimension + 1 characters that differ in the last one only.
EmbedTexts == MainTexts \cup {<<20013>>, LongText(<<120>>), LongText(<<121>>)}

\* self._simple_embed(text) on the instance; trace keeps, for each text, the
\* vector its first call returned and how many attempts had been recorded then.
SimpleEmbed ==
    /\ pc = "idle"
    /\ constructed
    /\ \E text \in EmbedTexts :
         /\ ret' = [op |-> "_simple_embed", text |-> text, value |-> simple_embed(text)]
         /\ trace' = IF text \in DOMAIN trace THEN trace
                      ELSE (text :> [value |-> simple_embed(text), at |-> Len(hist)]) @@ trace
    /\ UNCHANGED storeVars
    /\ UNCHANGED <<pc, user_input, reasoning, script, reflection, score, suggestion, analysis,
                   error, gen_scene>>

InitEmbed == InitWith({MaxHistory}, {DefaultThreshold}, {NoFile})
NextEmbed ==
    \/ Construct
    \/ AddMemory(MainTexts, StorePlans, ScriptResults)
    \/ SimpleEmbed

SpecEmbed == InitEmbed /\ [][NextEmbed]_vars

(***************************************************************************)
(* Properties of the embedding.                                            *)
(***************************************************************************)
Embedded == ret.op = "_simple_embed"

Prefix(t, n) == SubSeq(t, 1, Min(n, Len(t)))

C29_EmbedInUnitRange ==
    Embedded => \A i \in 1..dimension : 0 <= ret.value[i] /\ ret.value[i] <= 255

(***************************************************************************)
(* Properties of the verifier's score.                                     *)
(***************************************************************************)
\* C30: every score verifier.verify returns is absent or an integer in
\* 0..100, so the session never reaches DONE on a score above 100.
C30_ScoreInRange ==
    /\ score.tag = "int" => 0 <= score.v /\ score.v <= 100
    /\ pc = "done" => score.tag = "int" /\ score.v <= 100

(***************************************************************************)
(* Termination of the session.                                             *)
(***************************************************************************)
\* The session stands in a repair loop.
InRepairLoop == pc \in {"await_error", "fix", "save_fix"}

\* Line 223 has returned a score that line 227 accepts.
VerifierAccepted == pc = "record_verification" /\ Accepts(score)

\* C31: if every collaborator call returns (the process never ends on a
\* failure), every repair loop eventually receives an empty error report and
\* the verifier eventually returns a score >= 85, the session eventually
\* reaches DONE.
C31_ReachesDone ==
    (/\ [](pc # "crashed")
     /\ (InRepairLoop ~> pc = "await_image")
     /\ <>VerifierAccepted) => <>(pc = "done")

\* The session is done in its second cycle, after as many repairs as the
\* session makes and a verification that was not accepted.
C31_Witness ==
    /\ pc = "done"
    /\ trace.cycles = 2
    /\ trace.fixes = MaxRepairs
    /\ Accepts(score)
    /\ Len(SelectSeq(Added, NotAccepted)) = 1

(***************************************************************************)
(* Retrieval of what was just added.                                       *)
(***************************************************************************)
\* The instruction of the newest stored attempt.
NewestInstruction == memories[Len(memories)].instruction

\* C32: with similarity_threshold > 0 and max_history >= 1, the search that
\* directly follows a returned add_memory(instruction, ...), for the same
\* instruction and any k >= 1, returns a non-empty result whose first attempt
\* lies at distance 0 from the query.
C32_SelfRetrieval ==
    [][(/\ AddReturned
        /\ similarity_threshold > 0
        /\ max_history >= 1
        /\ ret'.op = "search_similar"
        /\ ret'.k >= 1
        /\ ret'.instruction = NewestInstruction) =>
           /\ ~ret'.raised
           /\ ret'.value # << >>
           /\ SqDist(simple_embed(ret'.value[1].instruction),
                     simple_embed(ret'.instruction)) = 0]_vars

\* A search for the instruction just added has returned two attempts from a
\* store whose newest attempt was added after an eviction: the first at
\* distance 0, the second for another instruction.
C32_Witness ==
    /\ SearchReturned
    /\ ret.k = 2
    /\ Len(hist) > n_loaded
    /\ Len(hist) > max_history
    /\ ret.instruction = NewestInstruction
    /\ Len(ret.value) = 2
    /\ ReturnedDist[1] = 0
    /\ ReturnedDist[2] > 0

(***************************************************************************)
(* The three readers of the store on one instance: search_similar,         *)
(* analyze_patterns and reflect_on_memory between constructions and        *)
(* add_memory calls.                                                       *)
(***************************************************************************)
\* Plans with and without the "objects" analyze_patterns reads.
ReaderPlans == {PlanPayload(<<"r1">>), [objects |-> PyList(<<Typed("cube")>>)]}

\* A verification the reflection reports.
ReaderResults == {VerificationPayload(<<"a1">>, PyInt(60), <<"t2">>)}

InitReaders == InitWith({MaxHistory}, {DefaultThreshold}, {NoFile, LongDisk})
NextReaders ==
    \/ Construct
    \/ AddMemory(MainTexts, ReaderPlans, ReaderResults)
    \/ SearchSimilar
    \/ AnalyzePatterns
    \/ ReflectOnMemory

SpecReaders == InitReaders /\ [][NextReaders]_vars

Readers == {"search_similar", "analyze_patterns", "reflect_on_memory"}

\* C33: search_similar, analyze_patterns and reflect_on_memory are read-only:
\* a call of any of them, whether it returns or raises, leaves the attempt
\* list, the similarity index and the file as they were.
C33_ReadOnly ==
    [][ret'.op \in Readers =>
         /\ memories' = memories
         /\ index' = index
         /\ disk' = disk]_vars

\* analyze_patterns has raised twice in a row on a store that holds attempts
\* the reflection reports, and whose file was written by add_memory.
C33_Witness ==
    /\ ret.op = "analyze_patterns"
    /\ ret.raised
    /\ ret.prior # << >>
    /\ Len(hist) > n_loaded
    /\ Problems(memories) # << >>
    /\ disk = save_memories(memories)

(***************************************************************************)
(* The guidance a session plans with.                                      *)
(***************************************************************************)
\* C34: the guidance does not depend on the instruction or the session: when
\* the session returns to PLAN, the guidance holds a line for every qualifying
\* attempt the store retains (a numeric score below 85 with a non-empty
\* suggestion), those loaded from the file and recorded for other
\* instructions included, so that the first REFLECT of a session carries the
\* guidance of earlier runs.
C34_GuidanceFromStore ==
    (pc = "plan" /\ trace.cycles >= 1) =>
        /\ reflection.tag = "str"
        /\ GuidanceLines(reflection.v) = ExpectedLines(memories)

(***************************************************************************)
(* What the store keeps of a cycle's artifact.                             *)
(***************************************************************************)
\* The artifacts the planner can return, and those the repair can.
PlannedScripts == {ParsePlan(c).script : c \in PlannerContents}
FixedScripts == {ParseFix(c) : c \in FixContents}

\* C35: the plan attempt recorded for a cycle carries the artifact as the
\* planner returned it; the corrections of the repair loop are saved to
\* gen_scene.py but never recorded in the store or written to its file: at
\* every position from the repair loop to the verification, the newest attempt
\* in the list and in the file is the cycle's plan attempt with the planner's
\* artifact, and no plan attempt of the session carries a correction.
C35_PlanRecordKeepsPlan ==
    pc \in {"await_error", "fix", "save_fix", "await_image"} =>
        LET planned == ScriptPayload(trace.loop.entry)
        IN  /\ trace.loop.entry \in PlannedScripts
            /\ Len(memories) = n_loaded + 2 * trace.cycles - 1
            /\ memories[Len(memories)].verification_result = planned
            /\ Len(disk.data) = Len(memories)
            /\ ParseRecord(disk.data[Len(disk.data)]).verification_result = planned
            /\ \A i \in (n_loaded + 1)..Len(memories) :
                 "script" \in DOMAIN memories[i].verification_result =>
                     memories[i].verification_result["script"].v \in PlannedScripts

\* The session waits for the image in its second cycle with a corrected
\* artifact in gen_scene.py, after a correction in the first cycle too.
C35_Witness ==
    /\ pc = "await_image"
    /\ trace.cycles = 2
    /\ trace.fixes = 2
    /\ Len(trace.loop.calls) = 1
    /\ script \in FixedScripts
    /\ script \notin PlannedScripts
    /\ gen_scene.text = script
    /\ memories[Len(memories)].verification_result = ScriptPayload(trace.loop.entry)

(***************************************************************************)
(* Two SceneMemory instances on the same data/memories.json: both are      *)
(* constructed from the same content of the file, then each completes      *)
(* add_memory calls, in any interleaving of the calls.                     *)
(***************************************************************************)
\* SceneMemory() once more, on the storage the first instance was built from.
ConstructOther ==
    /\ pc = "idle"
    /\ constructed
    /\ ~other.constructed
    /\ Len(hist) = n_loaded
    /\ LET loaded == load_memories(disk)
       IN  other' = [constructed |-> TRUE,
                     memories |-> loaded,
                     index |-> IF loaded # << >> THEN IndexAdd(<< >>, Embeddings(loaded))
                               ELSE << >>,
                     added |-> << >>]
    /\ ret' = [op |-> "construct", raised |-> FALSE]
    /\ UNCHANGED <<max_history, similarity_threshold, memories, index, disk, constructed,
                   hist, n_loaded>>
    /\ UNCHANGED mainVars

\* add_memory on the second instance: its own list and index, and the full
\* overwrite of the shared file with its own list.
AddMemoryOther(instructions, plans, results) ==
    /\ pc = "idle"
    /\ other.constructed
    /\ n_loaded + Len(other.added) < MaxAdds
    /\ \E i \in instructions, p \in plans, v \in results :
         LET r == AddMemoryResult(other.memories, other.index, max_history, i, p, v)
         IN  /\ other' = [other EXCEPT !.memories = r.memories,
                                       !.index = r.index,
                                       !.added = Append(@, MemoryEntry(i, p, v))]
             /\ disk' = save_memories(r.memories)
             /\ ret' = [op |-> "add_memory", raised |-> FALSE,
                        evicted |-> Len(other.memories) + 1 - Len(r.memories)]
    /\ UNCHANGED <<max_history, similarity_threshold, memories, index, constructed, hist,
                   n_loaded>>
    /\ UNCHANGED mainVars

\* The instructions the first and the second instance record.
FirstTexts == {<<97>>}
OtherTexts == {<<98>>}

InitTwo ==
    InitWith({MaxHistory, DefaultMaxHistory}, {DefaultThreshold},
             {NoFile, JsonFile(EarlierRecords)})
NextTwo ==
    \/ ~constructed /\ Construct
    \/ ConstructOther
    \/ other.constructed /\ AddMemory(FirstTexts, StorePlans, StoreResults)
    \/ AddMemoryOther(OtherTexts, StorePlans, StoreResults)

SpecTwo == InitTwo /\ [][NextTwo]_vars

\* The records data/memories.json holds.
DurableRecords == {load_memories(disk)[i] : i \in 1..Len(load_memories(disk))}

\* C36: with two instances constructed from the same storage, after any
\* interleaving of completed add_memory calls the file holds every attempt
\* added by either instance, as long as neither has exceeded max_history.
C36_NoLostAdd ==
    (/\ other.constructed
     /\ n_loaded + Len(Added) <= max_history
     /\ n_loaded + Len(other.added) <= max_history) =>
        /\ \A k \in 1..Len(Added) : Added[k] \in DurableRecords
        /\ \A k \in 1..Len(other.added) : other.added[k] \in DurableRecords

====
